---- MODULE Spec2Model ----
(***************************************************************************)
(* The notebook pytorch_transformation_functions.ipynb as a state machine: *)
(* the cells of the training and inference pipelines in their order, with  *)
(* to_df, transform_data and the training loop translated statement by     *)
(* statement, and the pandas / scikit-learn calls they make modelled by    *)
(* what those calls do.                                                    *)
(*                                                                         *)
(* Values.  A cell of a DataFrame is a record: S(c) a string, F(n) the     *)
(* number n, [num |-> a, den2 |-> b] the real number a / sqrt(b) (what     *)
(* standardisation produces from integers, kept exact), NaN a missing      *)
(* value.  A Python list is [list |-> <<items>>], so that isinstance(x,    *)
(* list) is a test on the value.  A call returns a record whose field err  *)
(* is "" or the name of the exception it raised.                           *)
(***************************************************************************)
EXTENDS Integers, Sequences, FiniteSets, TLC

VARIABLES
    pc,                          \* the cell that runs next
    error,                       \* "" or the exception that stopped the run
    df_original,                 \* rows of the feature group
    X_train, X_test, y_train,    \* the train/test split
    heap,                        \* the estimator and network objects, by id
    one_hot_encoder,             \* id bound to the name one_hot_encoder
    standard_scaler,             \* id bound to the name standard_scaler
    model,                       \* id bound to the name model
    X_train_transformed, X_test_transformed,
    X_train_transformed_tensor, y_train_tensor,
    input_dim,
    num_batches, epoch, i, start_idx, end_idx, batch_X, batch_y, loss,
    files,                       \* the pickles in model_dir
    registry,                    \* model registry: version -> saved directory
    saved_model_dir,             \* the directory retrieved_model.download() gave
    retrieved_torch_model,
    batch_data, batch_data_transformed, predictions_batch,
    feature_vector, feature_vector_df, feature_vector_transformed,
    prediction_feature_vector,
    feature_vectors, feature_vectors_df, feature_vectors_transformed,
    prediction_feature_vectors

vars == <<pc, error, df_original, X_train, X_test, y_train, heap,
          one_hot_encoder, standard_scaler, model,
          X_train_transformed, X_test_transformed,
          X_train_transformed_tensor, y_train_tensor, input_dim,
          num_batches, epoch, i, start_idx, end_idx, batch_X, batch_y, loss,
          files, registry, saved_model_dir, retrieved_torch_model,
          batch_data, batch_data_transformed, predictions_batch,
          feature_vector, feature_vector_df, feature_vector_transformed,
          prediction_feature_vector,
          feature_vectors, feature_vectors_df, feature_vectors_transformed,
          prediction_feature_vectors>>

-----------------------------------------------------------------------------
(* Bounds of the model and constants of the program.                       *)

MaxRows == 2          \* rows of a table handed to fit / transform_data
MaxVectors == 2       \* feature vectors in one to_df call
MaxArity == 3         \* elements of one feature vector
MaxBase == 2          \* rows of the pattern the feature group repeats
TileReps == 55        \* times the pattern repeats in the large feature group

num_epochs == 5
batch_size == 32

\* The city names, in the order numpy sorts them (np.unique, used by fit).
CityOrder == <<"Amsterdam", "Berlin", "Paris">>
Cities == {CityOrder[k] : k \in 1..Len(CityOrder)}

-----------------------------------------------------------------------------
(* Python values.                                                          *)

S(c) == [str |-> c]
F(n) == [num |-> n, den2 |-> 1]
NaN == [nan |-> TRUE]
None == [none |-> TRUE]

IsStr(x) == "str" \in DOMAIN x
IsNum(x) == "num" \in DOMAIN x
IsPlain(x) == IsNum(x) /\ x.den2 = 1
IsNaN(x) == "nan" \in DOMAIN x
IsList(x) == "list" \in DOMAIN x

PyList(items) == [list |-> items]

Ok(v) == [err |-> "", val |-> v]
Raise(e) == [err |-> e]

\* seq[start:end], Python's slice: both ends clamped to the length.
PySlice(seq, start, end) ==
    LET n == Len(seq)
        lo == IF start > n THEN n ELSE start
        hi == IF end > n THEN n ELSE end
    IN  IF hi <= lo THEN << >> ELSE [k \in 1..(hi - lo) |-> seq[lo + k]]

-----------------------------------------------------------------------------
(* pandas.  A DataFrame is its column labels, its row labels (the index)   *)
(* and its rows of cells.                                                  *)

RangeIndex(n) == [k \in 1..n |-> k - 1]

DataFrame(columns, index, values) ==
    [columns |-> columns, index |-> index, values |-> values]

NRows(df) == Len(df.values)
HasCol(df, name) == \E j \in 1..Len(df.columns) : df.columns[j] = name
ColIdx(df, name) == CHOOSE j \in 1..Len(df.columns) : df.columns[j] = name
Column(df, name) == [k \in 1..NRows(df) |-> df.values[k][ColIdx(df, name)]]

\* df[[name]]: the one-column frame, KeyError when the label is missing.
DataFrame_getitem(df, name) ==
    IF ~HasCol(df, name) THEN Raise("KeyError")
    ELSE Ok(DataFrame(<<name>>, df.index,
                      [k \in 1..NRows(df) |-> <<df.values[k][ColIdx(df, name)]>>]))

\* Mutant: the index is not reset.
DataFrame_reset_index_skipped(df) == [ret |-> df, self |-> df]

\* Mutant: reset in place, the frame of the caller losing its labels.
DataFrame_reset_index_inplace(df) ==
    [ret |-> DataFrame(df.columns, RangeIndex(NRows(df)), df.values),
     self |-> DataFrame(df.columns, RangeIndex(NRows(df)), df.values)]

\* df.reset_index(drop=True): a new frame with the default index; self is
\* left as it was.
DataFrame_reset_index(df) ==
    [ret |-> DataFrame(df.columns, RangeIndex(NRows(df)), df.values), self |-> df]

RemoveAt(seq, j) == [k \in 1..(Len(seq) - 1) |-> IF k < j THEN seq[k] ELSE seq[k + 1]]

\* Mutant: the column is not removed.
DataFrame_drop_kept(df, name) ==
    IF ~HasCol(df, name) THEN [err |-> "KeyError", self |-> df]
    ELSE [err |-> "", ret |-> df, self |-> df]

\* df.drop(name, axis=1): a new frame without that column, KeyError when the
\* label is missing; self is left as it was.
DataFrame_drop(df, name) ==
    IF ~HasCol(df, name) THEN [err |-> "KeyError", self |-> df]
    ELSE [err |-> "",
          ret |-> DataFrame(RemoveAt(df.columns, ColIdx(df, name)), df.index,
                            [k \in 1..NRows(df) |->
                                RemoveAt(df.values[k], ColIdx(df, name))]),
          self |-> df]

HasDuplicates(seq) == \E a, b \in 1..Len(seq) : a # b /\ seq[a] = seq[b]
Labels(seq) == {seq[k] : k \in 1..Len(seq)}
RowOf(df, label) == df.values[CHOOSE k \in 1..NRows(df) : df.index[k] = label]
NaNRow(n) == [j \in 1..n |-> NaN]

\* The labels of b that a lacks, in b's order.
NewLabels(a, b) == SelectSeq(b.index, LAMBDA l : l \notin Labels(a.index))

\* pd.concat([a, b], axis=1): the columns of a then those of b, rows aligned
\* on the index labels (outer join).  Equal indexes are pasted side by side;
\* otherwise the result has the union of the labels, a cell being NaN where
\* a frame lacks the label, and duplicated labels cannot be aligned.
concat(a, b) ==
    IF a.index = b.index
    THEN Ok(DataFrame(a.columns \o b.columns, a.index,
                      [k \in 1..NRows(a) |-> a.values[k] \o b.values[k]]))
    ELSE IF HasDuplicates(a.index) \/ HasDuplicates(b.index)
    THEN Raise("InvalidIndexError")
    ELSE LET index == a.index \o NewLabels(a, b)
         IN  Ok(DataFrame(a.columns \o b.columns, index,
                 [k \in 1..Len(index) |->
                    (IF index[k] \in Labels(a.index) THEN RowOf(a, index[k])
                     ELSE NaNRow(Len(a.columns)))
                    \o
                    (IF index[k] \in Labels(b.index) THEN RowOf(b, index[k])
                     ELSE NaNRow(Len(b.columns)))]))

\* df[name] = column, for a one-column frame `column` of as many rows: the
\* column is replaced in place (KeyError cannot happen: a missing label would
\* be appended).
DataFrame_setitem(df, name, column) ==
    IF HasCol(df, name)
    THEN DataFrame(df.columns, df.index,
                   [k \in 1..NRows(df) |->
                       [df.values[k] EXCEPT ![ColIdx(df, name)] = column[k][1]]])
    ELSE DataFrame(Append(df.columns, name), df.index,
                   [k \in 1..NRows(df) |-> Append(df.values[k], column[k][1])])

-----------------------------------------------------------------------------
(* scikit-learn.  An estimator method returns err, its result ret and the  *)
(* estimator after the call, self.                                         *)

\* The sum of s[lo..hi], by halves, and np.sum of a column.
RECURSIVE SumRange(_, _, _)
SumRange(s, lo, hi) ==
    IF lo > hi THEN 0
    ELSE IF lo = hi THEN s[lo]
    ELSE SumRange(s, lo, (lo + hi) \div 2) + SumRange(s, ((lo + hi) \div 2) + 1, hi)
SumSeq(s) == SumRange(s, 1, Len(s))

\* np.unique of a column of strings: its distinct values, sorted.
SortedUnique(column) ==
    SelectSeq(CityOrder, LAMBDA c : \E k \in 1..Len(column) : column[k].str = c)

\* Mutant: categories the fit has not seen are encoded as all zeros.
OneHotEncoder_ignoring_unknown ==
    [cls |-> "OneHotEncoder", fitted |-> FALSE, handle_unknown |-> "ignore",
     categories_ |-> << >>]

\* OneHotEncoder(sparse=False): handle_unknown keeps its default, 'error'.
OneHotEncoder ==
    [cls |-> "OneHotEncoder", fitted |-> FALSE, handle_unknown |-> "error",
     categories_ |-> << >>]

\* StandardScaler(): with_mean and with_std keep their default, True.
StandardScaler ==
    [cls |-> "StandardScaler", fitted |-> FALSE, n_samples_seen_ |-> 0,
     mean_ |-> [num |-> 0, den |-> 1], var_ |-> [num |-> 0, den |-> 1],
     scale_ |-> [sq_num |-> 1, sq_den |-> 1]]

\* one_hot_encoder.fit(X) for a one-column frame X: one sorted array of
\* categories per feature.
OneHotEncoder_fit(self, X) ==
    IF NRows(X) = 0 THEN [err |-> "ValueError", self |-> self]
    ELSE [err |-> "",
          self |-> [self EXCEPT !.fitted = TRUE,
                                !.categories_ = <<SortedUnique(Column(X, X.columns[1]))>>]]

OneHot(cats, cell) == [j \in 1..Len(cats) |-> IF cell.str = cats[j] THEN F(1) ELSE F(0)]
Known(cats, cell) == \E j \in 1..Len(cats) : cell.str = cats[j]

\* Mutant: fit_transform in the place of transform, the categories taken
\* from the table that is being transformed.
OneHotEncoder_fit_transform(self, X) ==
    IF NRows(X) = 0 THEN [err |-> "ValueError", self |-> self]
    ELSE LET cats == SortedUnique(Column(X, X.columns[1])) IN
         [err |-> "",
          ret |-> [k \in 1..NRows(X) |-> OneHot(cats, X.values[k][1])],
          self |-> [self EXCEPT !.fitted = TRUE, !.categories_ = <<cats>>]]

\* one_hot_encoder.transform(X): one row of 0/1 per row of X, one column per
\* fitted category; a value outside the fitted categories raises ValueError
\* (handle_unknown='error'), and encodes as all zeros under 'ignore'.
OneHotEncoder_transform(self, X) ==
    IF ~self.fitted THEN [err |-> "NotFittedError", self |-> self]
    ELSE IF NRows(X) = 0 THEN [err |-> "ValueError", self |-> self]
    ELSE IF /\ self.handle_unknown = "error"
            /\ \E k \in 1..NRows(X) : ~Known(self.categories_[1], X.values[k][1])
    THEN [err |-> "ValueError", self |-> self]
    ELSE [err |-> "",
          ret |-> [k \in 1..NRows(X) |-> OneHot(self.categories_[1], X.values[k][1])],
          self |-> self]

\* standard_scaler.fit(X) for a one-column frame X of numbers: the mean and
\* the population variance (np.var, ddof = 0) of the column, as fractions;
\* scale_ is sqrt(var_), kept as its square, and a zero scale is replaced by
\* 1 (_handle_zeros_in_scale).
StandardScaler_fit(self, X) ==
    IF NRows(X) = 0 \/ \E k \in 1..NRows(X) : ~IsNum(X.values[k][1])
    THEN [err |-> "ValueError", self |-> self]
    ELSE LET n == NRows(X)
             sum == SumSeq([k \in 1..n |-> X.values[k][1].num])
             ssq == SumSeq([k \in 1..n |-> X.values[k][1].num * X.values[k][1].num])
             var == [num |-> n * ssq - sum * sum, den |-> n * n]
         IN  [err |-> "",
              self |-> [self EXCEPT
                  !.fitted = TRUE,
                  !.n_samples_seen_ = n,
                  !.mean_ = [num |-> sum, den |-> n],
                  !.var_ = var,
                  !.scale_ = IF var.num = 0 THEN [sq_num |-> 1, sq_den |-> 1]
                             ELSE [sq_num |-> var.num, sq_den |-> var.den]]]

\* (v - mean_) / scale_ for the number v, as num / sqrt(den2):
\* (v - s/n) / sqrt(p/q) = (n*v - s) / sqrt((n*n/q)*p), and q is n*n or 1.
\* A value that is already of the form a / sqrt(b), b > 1, is kept symbolic.
Standardize(self, cell) ==
    IF IsNaN(cell) THEN NaN
    ELSE IF ~IsPlain(cell) THEN [standardized |-> cell]
    ELSE [num |-> self.mean_.den * cell.num - self.mean_.num,
          den2 |-> ((self.mean_.den * self.mean_.den) \div self.scale_.sq_den)
                       * self.scale_.sq_num]

\* Mutant: fit_transform in the place of transform, the statistics taken from
\* the table that is being transformed.
StandardScaler_fit_transform(self, X) ==
    LET fit == StandardScaler_fit(self, X) IN
    IF fit.err # "" THEN fit
    ELSE [err |-> "",
          ret |-> [k \in 1..NRows(X) |-> <<Standardize(fit.self, X.values[k][1])>>],
          self |-> fit.self]

\* standard_scaler.transform(X): every value standardised with the fitted
\* mean_ and scale_; the estimator is not changed.
StandardScaler_transform(self, X) ==
    IF ~self.fitted THEN [err |-> "NotFittedError", self |-> self]
    ELSE IF NRows(X) = 0 \/ \E k \in 1..NRows(X) : IsStr(X.values[k][1])
    THEN [err |-> "ValueError", self |-> self]
    ELSE [err |-> "",
          ret |-> [k \in 1..NRows(X) |-> <<Standardize(self, X.values[k][1])>>],
          self |-> self]

-----------------------------------------------------------------------------
(* The two functions of the notebook.                                      *)

\* Mutant: the last vector of a list of vectors is left out.
to_df_dropping_last(vector) ==
    LET fv == vector.list IN
    IF Len(fv) < 1 THEN Raise("IndexError")
    ELSE IF IsList(fv[1])
    THEN IF \E k \in 1..Len(fv) : Len(fv[k].list) < 2 THEN Raise("IndexError")
         ELSE Ok(DataFrame(<<"city_name", "pm2_5">>, RangeIndex(Len(fv) - 1),
                           [k \in 1..(Len(fv) - 1) |-> <<fv[k].list[1], fv[k].list[2]>>]))
    ELSE IF Len(fv) < 2 THEN Raise("IndexError")
    ELSE Ok(DataFrame(<<"city_name", "pm2_5">>, RangeIndex(1), <<<<fv[1], fv[2]>>>>))

\* to_df(feature_vector), the argument here named vector.  Subscripting a list beyond its last element
\* raises IndexError.  The members of a list of vectors are lists.
to_df(vector) ==
    LET fv == vector.list IN
    IF Len(fv) < 1 THEN Raise("IndexError")
    ELSE IF IsList(fv[1])
    THEN IF \E k \in 1..Len(fv) : Len(fv[k].list) < 2 THEN Raise("IndexError")
         ELSE Ok(DataFrame(<<"city_name", "pm2_5">>, RangeIndex(Len(fv)),
                           [k \in 1..Len(fv) |-> <<fv[k].list[1], fv[k].list[2]>>]))
    ELSE IF Len(fv) < 2 THEN Raise("IndexError")
    ELSE Ok(DataFrame(<<"city_name", "pm2_5">>, RangeIndex(1), <<<<fv[1], fv[2]>>>>))

\* What a transform_data call leaves behind when it raises e.
Raised(e, data, enc, scl) ==
    [err |-> e, data |-> data, one_hot_encoder |-> enc, standard_scaler |-> scl]

\* transform_data(data, one_hot_encoder, standard_scaler): err, the returned
\* frame ret, and the three arguments as the call leaves them.
transform_data(data, enc, scl) ==
    LET sel == DataFrame_getitem(data, "city_name") IN
    IF sel.err # "" THEN Raised(sel.err, data, enc, scl) ELSE
    LET city_encoded == OneHotEncoder_transform(enc, sel.val) IN
    IF city_encoded.err # "" THEN Raised(city_encoded.err, data, city_encoded.self, scl) ELSE
    LET enc1 == city_encoded.self
        encoded_df == DataFrame(enc1.categories_[1], RangeIndex(Len(city_encoded.ret)),
                                city_encoded.ret)
        reset == DataFrame_reset_index(data)
        dropped == DataFrame_drop(reset.ret, "city_name")
    IN
    IF dropped.err # "" THEN Raised(dropped.err, reset.self, enc1, scl) ELSE
    LET joined == concat(dropped.ret, encoded_df) IN
    IF joined.err # "" THEN Raised(joined.err, reset.self, enc1, scl) ELSE
    LET pm == DataFrame_getitem(joined.val, "pm2_5") IN
    IF pm.err # "" THEN Raised(pm.err, reset.self, enc1, scl) ELSE
    LET scaled == StandardScaler_transform(scl, pm.val) IN
    IF scaled.err # "" THEN Raised(scaled.err, reset.self, enc1, scaled.self) ELSE
    [err |-> "",
     ret |-> DataFrame_setitem(joined.val, "pm2_5", scaled.ret),
     data |-> reset.self, one_hot_encoder |-> enc1, standard_scaler |-> scaled.self]

-----------------------------------------------------------------------------
(* PyTorch and joblib.                                                     *)

\* to_tensor(dataframe): torch.tensor(dataframe.values), the rows of cells
\* without labels.
to_tensor(dataframe) == dataframe.values

\* BinaryClassificationModel(input_dim).  The weights of fc1, fc2 and fc3 are
\* held as the list of the batches the optimizer has stepped on since the
\* random initialisation: they are a function of nothing else.
BinaryClassificationModel(dim) ==
    [cls |-> "BinaryClassificationModel", input_dim |-> dim, params |-> << >>]

\* The output of the network for one row: sigmoid(fc3(relu(fc2(relu(fc1(row)))))),
\* a number of [0, 1] that the weights and the row determine; a NaN in the
\* row goes through the three layers and the sigmoid, and the output is NaN.
Output(params, row) ==
    IF \E j \in 1..Len(row) : IsNaN(row[j]) THEN NaN
    ELSE [sigmoid |-> [params |-> params, x |-> row]]

\* Mutant: a batch normalisation in training mode, the output of a row
\* depending on the rows it is called with.
forward_batch_normalised(self, x) ==
    IF \E k \in 1..Len(x) : Len(x[k]) # self.input_dim
    THEN [err |-> "RuntimeError", self |-> self]
    ELSE [err |-> "",
          val |-> [k \in 1..Len(x) |->
                      <<IF \E j \in 1..Len(x[k]) : IsNaN(x[k][j]) THEN NaN
                        ELSE [sigmoid |-> [params |-> self.params, x |-> x[k],
                                           batch |-> x]]>>],
          self |-> self]

\* model(x), BinaryClassificationModel.forward: one output per row; fc1
\* rejects rows that are not input_dim wide; the network is not changed.
forward(self, x) ==
    IF \E k \in 1..Len(x) : Len(x[k]) # self.input_dim
    THEN [err |-> "RuntimeError", self |-> self]
    ELSE [err |-> "",
          val |-> [k \in 1..Len(x) |-> <<Output(self.params, x[k])>>],
          self |-> self]

\* Mutant: the optimizer steps twice on a batch.
optimizer_step_twice(self, start, end) ==
    [self EXCEPT !.params = Append(Append(self.params, <<start, end>>), <<start, end>>)]

\* optimizer.step() after loss.backward() on the batch [start:end]: the
\* weights move once.
optimizer_step(self, start, end) ==
    [self EXCEPT !.params = Append(self.params, <<start, end>>)]

\* joblib.dump(obj, file) and joblib.load(file): the file holds the pickled
\* attributes of the object, load builds a new object from them.
dump(obj) == [pickle |-> obj]
load(file) == file.pickle

-----------------------------------------------------------------------------
(* Arguments.  The tables and feature vectors the functions are called on  *)
(* when they are exercised on their own (SpecFn).                          *)

\* All sequences over `set` of length lo..hi.
SeqsOf(set, lo, hi) == UNION {[1..n -> set] : n \in lo..hi}

\* A row index of n labels: the default one, a non-contiguous one, a shuffled
\* one and one whose labels are all the same.
IndexKinds == {"range", "gapped", "shuffled", "duplicated"}
MakeIndex(kind, n) ==
    [k \in 1..n |-> CASE kind = "range" -> k - 1
                      [] kind = "gapped" -> 2 * k + 3
                      [] kind = "shuffled" -> n - k
                      [] OTHER -> 7]

\* The frame of the rows <<city, pm2_5>>; with `other`, a third column that
\* transform_data has no business with, holding 100 + the row's position.
Frame(rows, index, other) ==
    IF other
    THEN DataFrame(<<"other", "city_name", "pm2_5">>, index,
                   [k \in 1..Len(rows) |-> <<F(100 + k), S(rows[k][1]), F(rows[k][2])>>])
    ELSE DataFrame(<<"city_name", "pm2_5">>, index,
                   [k \in 1..Len(rows) |-> <<S(rows[k][1]), F(rows[k][2])>>])

\* Tables the estimators are fitted on.
FitRows == {<<"Amsterdam", 10>>, <<"Paris", 30>>, <<"Berlin", 30>>, <<"Paris", 10>>}
FitTables ==
    {Frame(rows, RangeIndex(Len(rows)), FALSE) : rows \in SeqsOf(FitRows, 1, MaxRows)}

\* Tables transform_data is applied to.
ApplyRows == Cities \X {10, 20}
ApplyTables ==
    {Frame(rows, MakeIndex(kind, Len(rows)), other) :
        rows \in SeqsOf(ApplyRows, 1, MaxRows), kind \in IndexKinds, other \in BOOLEAN}

\* Feature vectors of 0..MaxArity elements: a city, a PM2.5 value, and then
\* elements that do not belong there.
VectorOf(city, pm, arity) ==
    PyList([k \in 1..arity |-> CASE k = 1 -> S(city) [] k = 2 -> F(pm) [] OTHER -> F(k)])
Vectors ==
    {VectorOf(city, pm, arity) :
        city \in {"Amsterdam", "Paris"}, pm \in {10, 20}, arity \in 0..MaxArity}

\* to_df's arguments: one vector, or a list of 1..MaxVectors vectors.
ToDfArguments == Vectors \cup {PyList(vs) : vs \in SeqsOf(Vectors, 1, MaxVectors)}

-----------------------------------------------------------------------------
(* The state before the first cell.                                        *)

Unset ==
    /\ error = ""
    /\ df_original = None /\ X_train = None /\ X_test = None /\ y_train = None
    /\ heap = << >>
    /\ one_hot_encoder = 0 /\ standard_scaler = 0 /\ model = 0
    /\ X_train_transformed = None /\ X_test_transformed = None
    /\ X_train_transformed_tensor = << >> /\ y_train_tensor = << >>
    /\ input_dim = 0
    /\ num_batches = 0 /\ epoch = 0 /\ i = 0 /\ start_idx = 0 /\ end_idx = 0
    /\ batch_X = << >> /\ batch_y = << >> /\ loss = None
    /\ files = None /\ registry = << >> /\ saved_model_dir = None
    /\ retrieved_torch_model = 0
    /\ batch_data = None /\ batch_data_transformed = None /\ predictions_batch = << >>
    /\ feature_vector = None /\ feature_vector_df = None
    /\ feature_vector_transformed = None /\ prediction_feature_vector = << >>
    /\ feature_vectors = None /\ feature_vectors_df = None
    /\ feature_vectors_transformed = None /\ prediction_feature_vectors = << >>

pipeline_vars ==
    <<df_original, X_test, y_train, model, X_train_transformed, X_test_transformed,
      X_train_transformed_tensor, y_train_tensor, input_dim,
      num_batches, epoch, i, start_idx, end_idx, batch_X, batch_y, loss,
      files, registry, saved_model_dir, retrieved_torch_model, predictions_batch,
      feature_vector_transformed, prediction_feature_vector,
      feature_vectors, feature_vectors_df, feature_vectors_transformed,
      prediction_feature_vectors>>

-----------------------------------------------------------------------------
(* SpecFn: to_df, the two fits, transform_data and the classifier called   *)
(* on their own, on arbitrary arguments.  A behaviour is one to_df call,   *)
(* or the creation of a network followed by calls of it on a tensor, or    *)
(* the creation of the estimators followed by a transform_data call,       *)
(* before or after the estimators are fitted on a table X_train, and by a  *)
(* second call on the result of the first.  The argument of                *)
(* transform_data is held in batch_data and its result in                  *)
(* batch_data_transformed; the argument of to_df in feature_vector and its *)
(* result in feature_vector_df; error is the exception of the last call.   *)

FnInit ==
    /\ pc = "fn"
    /\ Unset

\* to_df(feature_vector)
FnToDf ==
    /\ pc = "fn"
    /\ \E v \in ToDfArguments :
        LET r == to_df(v) IN
        /\ feature_vector' = v
        /\ feature_vector_df' = IF r.err = "" THEN r.val ELSE None
        /\ error' = r.err
    /\ pc' = "fn_to_df"
    /\ UNCHANGED <<X_train, heap, one_hot_encoder, standard_scaler, batch_data,
                   batch_data_transformed, pipeline_vars>>

\* one_hot_encoder = OneHotEncoder(sparse=False); standard_scaler = StandardScaler()
FnCreate ==
    /\ pc = "fn"
    /\ heap' = <<OneHotEncoder, StandardScaler>>
    /\ one_hot_encoder' = 1
    /\ standard_scaler' = 2
    /\ pc' = "fn_created"
    /\ UNCHANGED <<error, X_train, batch_data, batch_data_transformed, feature_vector,
                   feature_vector_df, pipeline_vars>>

\* one_hot_encoder.fit(X_train[['city_name']]); standard_scaler.fit(X_train[['pm2_5']])
FnFit ==
    /\ pc = "fn_created"
    /\ \E t \in FitTables :
        LET e == OneHotEncoder_fit(heap[one_hot_encoder],
                                   DataFrame_getitem(t, "city_name").val)
            s == StandardScaler_fit(heap[standard_scaler],
                                    DataFrame_getitem(t, "pm2_5").val)
        IN  /\ X_train' = t
            /\ heap' = [heap EXCEPT ![one_hot_encoder] = e.self,
                                    ![standard_scaler] = s.self]
    /\ pc' = "fn_fitted"
    /\ UNCHANGED <<error, one_hot_encoder, standard_scaler, batch_data,
                   batch_data_transformed, feature_vector, feature_vector_df,
                   pipeline_vars>>

\* Only one of the two fits: the other estimator stays as it was created.
FnFitOne ==
    /\ pc = "fn_created"
    /\ \E t \in FitTables, fit_encoder \in BOOLEAN :
        LET e == OneHotEncoder_fit(heap[one_hot_encoder],
                                   DataFrame_getitem(t, "city_name").val)
            s == StandardScaler_fit(heap[standard_scaler],
                                    DataFrame_getitem(t, "pm2_5").val)
        IN  /\ X_train' = t
            /\ heap' = IF fit_encoder THEN [heap EXCEPT ![one_hot_encoder] = e.self]
                                      ELSE [heap EXCEPT ![standard_scaler] = s.self]
    /\ pc' = "fn_half_fitted"
    /\ UNCHANGED <<error, one_hot_encoder, standard_scaler, batch_data,
                   batch_data_transformed, feature_vector, feature_vector_df,
                   pipeline_vars>>

\* batch_data_transformed = transform_data(batch_data, one_hot_encoder, standard_scaler)
FnTransform ==
    /\ pc \in {"fn_created", "fn_half_fitted", "fn_fitted"}
    /\ \E t \in ApplyTables :
        LET r == transform_data(t, heap[one_hot_encoder], heap[standard_scaler]) IN
        /\ batch_data' = r.data
        /\ batch_data_transformed' = IF r.err = "" THEN r.ret ELSE None
        /\ error' = r.err
        /\ heap' = [heap EXCEPT ![one_hot_encoder] = r.one_hot_encoder,
                                ![standard_scaler] = r.standard_scaler]
    /\ pc' = IF pc = "fn_fitted" THEN "fn_applied" ELSE "fn_unfitted"
    /\ UNCHANGED <<X_train, one_hot_encoder, standard_scaler, feature_vector,
                   feature_vector_df, pipeline_vars>>

\* batch_data_transformed = transform_data(batch_data_transformed, ...): a
\* second call, on the frame the first call returned; when the call raises
\* nothing is assigned.
FnTransformAgain ==
    /\ pc = "fn_applied"
    /\ error = ""
    /\ LET r == transform_data(batch_data_transformed, heap[one_hot_encoder],
                               heap[standard_scaler]) IN
        /\ batch_data_transformed' = IF r.err = "" THEN r.ret ELSE r.data
        /\ error' = r.err
        /\ heap' = [heap EXCEPT ![one_hot_encoder] = r.one_hot_encoder,
                                ![standard_scaler] = r.standard_scaler]
    /\ pc' = "fn_reapplied"
    /\ UNCHANGED <<X_train, one_hot_encoder, standard_scaler, batch_data,
                   feature_vector, feature_vector_df, pipeline_vars>>

\* The networks and the tensors the classifier is called on when it is
\* exercised on its own: a network of two inputs, fresh or after one
\* optimizer step, and 1..MaxRows rows of two cells, or of three, which the
\* network rejects.
FnNetworks ==
    {[BinaryClassificationModel(2) EXCEPT !.params = ps] : ps \in {<< >>, <<<<0, 32>>>>}}
TensorRows == [1..2 -> {F(0), F(1), NaN}]
WideRows == [1..3 -> {F(0)}]
Tensors == SeqsOf(TensorRows, 1, MaxRows) \cup SeqsOf(WideRows, 1, MaxRows)

\* What the calls of the classifier leave alone.
not_predict_vars ==
    <<df_original, X_train, X_test, y_train, one_hot_encoder, standard_scaler,
      X_train_transformed, X_test_transformed, y_train_tensor, input_dim,
      num_batches, epoch, start_idx, end_idx, batch_X, batch_y, loss,
      files, registry, saved_model_dir, retrieved_torch_model, batch_data,
      batch_data_transformed, feature_vector, feature_vector_df,
      feature_vector_transformed, feature_vectors, feature_vectors_df,
      feature_vectors_transformed>>

\* model = BinaryClassificationModel(input_dim), trained or not
FnCreateModel ==
    /\ pc = "fn"
    /\ \E net \in FnNetworks : heap' = <<net>>
    /\ model' = 1
    /\ pc' = "fn_model"
    /\ UNCHANGED <<error, X_train_transformed_tensor, i, predictions_batch,
                   prediction_feature_vector, prediction_feature_vectors,
                   not_predict_vars>>

\* predictions_batch = model(X_train_transformed_tensor)
FnPredict ==
    /\ pc = "fn_model"
    /\ \E x \in Tensors :
        LET r == forward(heap[model], x) IN
        /\ X_train_transformed_tensor' = x
        /\ predictions_batch' = IF r.err = "" THEN r.val ELSE predictions_batch
        /\ heap' = [heap EXCEPT ![model] = r.self]
        /\ error' = r.err
    /\ pc' = "fn_predicted"
    /\ UNCHANGED <<model, i, prediction_feature_vector, prediction_feature_vectors,
                   not_predict_vars>>

\* prediction_feature_vectors = model(X_train_transformed_tensor): the same
\* call once more.
FnPredictAgain ==
    /\ pc = "fn_predicted"
    /\ error = ""
    /\ LET r == forward(heap[model], X_train_transformed_tensor) IN
        /\ prediction_feature_vectors' =
                IF r.err = "" THEN r.val ELSE prediction_feature_vectors
        /\ heap' = [heap EXCEPT ![model] = r.self]
        /\ error' = r.err
    /\ pc' = "fn_predicted_again"
    /\ UNCHANGED <<model, i, X_train_transformed_tensor, predictions_batch,
                   prediction_feature_vector, not_predict_vars>>

\* prediction_feature_vector = model(X_train_transformed_tensor[i:i+1]): the
\* call on one of the rows, alone.
FnPredictRow ==
    /\ pc = "fn_predicted_again"
    /\ error = ""
    /\ \E k \in 0..(Len(X_train_transformed_tensor) - 1) :
        LET r == forward(heap[model], PySlice(X_train_transformed_tensor, k, k + 1)) IN
        /\ i' = k
        /\ prediction_feature_vector' =
                IF r.err = "" THEN r.val ELSE prediction_feature_vector
        /\ heap' = [heap EXCEPT ![model] = r.self]
        /\ error' = r.err
    /\ pc' = "fn_predicted_row"
    /\ UNCHANGED <<model, X_train_transformed_tensor, predictions_batch,
                   prediction_feature_vectors, not_predict_vars>>

FnNext ==
    \/ FnToDf \/ FnCreate \/ FnFit \/ FnFitOne \/ FnTransform \/ FnTransformAgain
    \/ FnCreateModel \/ FnPredict \/ FnPredictAgain \/ FnPredictRow

SpecFn == FnInit /\ [][FnNext]_vars

-----------------------------------------------------------------------------
(* The feature store and the model registry, as the notebook uses them.    *)

\* The rows <<city_name, pm2_5, target>> of the feature group (the date, the
\* second part of the primary key, is left out): a pattern of 2..MaxBase
\* rows, once or repeated TileReps times.
BaseRows == {<<"Amsterdam", 10, 0>>, <<"Amsterdam", 30, 1>>, <<"Paris", 20, 1>>}
Tile(base, reps) ==
    [k \in 1..(Len(base) * reps) |-> base[((k - 1) % Len(base)) + 1]]
FeatureGroups ==
    {Tile(base, reps) : base \in SeqsOf(BaseRows, 2, MaxBase), reps \in {1, TileReps}}

\* The frames of the features and of the label of the rows at the positions
\* pos, labelled by position.
FeaturesAt(rows, pos) ==
    DataFrame(<<"city_name", "pm2_5">>, [k \in 1..Len(pos) |-> pos[k] - 1],
              [k \in 1..Len(pos) |-> <<S(rows[pos[k]][1]), F(rows[pos[k]][2])>>])
LabelsAt(rows, pos) ==
    DataFrame(<<"target">>, [k \in 1..Len(pos) |-> pos[k] - 1],
              [k \in 1..Len(pos) |-> <<F(rows[pos[k]][3])>>])
Positions(n) == [k \in 1..n |-> k]

\* feature_view.train_test_split(test_size=0.1): the sets of positions that
\* may form the test split of n rows: a tenth of the rows (one row at least),
\* taken from position p on at a stride s.
TestSets(n) ==
    LET cnt == IF n \div 10 < 1 THEN 1 ELSE n \div 10 IN
    {t \in {{p + s * m : m \in 0..(cnt - 1)} : s \in 1..MaxBase, p \in 1..MaxBase} :
        t \subseteq 1..n /\ cnt < n}

\* The directory an earlier execution of the notebook saved.
EarlierTrain == Frame(<<<<"Amsterdam", 20>>, <<"Paris", 30>>, <<"Paris", 40>>>>,
                      RangeIndex(3), FALSE)
EarlierFiles ==
    [one_hot_encoder |->
        dump(OneHotEncoder_fit(OneHotEncoder,
                               DataFrame_getitem(EarlierTrain, "city_name").val).self),
     standard_scaler |->
        dump(StandardScaler_fit(StandardScaler,
                                DataFrame_getitem(EarlierTrain, "pm2_5").val).self),
     torch_classifier |-> dump(BinaryClassificationModel(3))]

\* Mutant: rounded up, the rows left over forming a last, short batch.
NumBatches_rounded_up(n) == (n + batch_size - 1) \div batch_size

\* len(X_train_transformed_tensor) // batch_size
NumBatches(n) == n \div batch_size

-----------------------------------------------------------------------------
(* Spec: the cells of the notebook, run in order from the train/test split *)
(* on.  A cell that raises stops the run: pc = "error".                    *)

data_vars == <<df_original, X_test, y_train>>
name_vars == <<one_hot_encoder, standard_scaler, model>>
tensor_vars == <<X_train_transformed_tensor, y_train_tensor, input_dim>>
loop_vars == <<num_batches, epoch, i, start_idx, end_idx, batch_X, batch_y, loss>>
store_vars == <<files, registry, saved_model_dir, retrieved_torch_model>>
batch_vars == <<batch_data, batch_data_transformed, predictions_batch>>
vector_vars == <<feature_vector, feature_vector_df, feature_vector_transformed,
                 prediction_feature_vector>>
vectors_vars == <<feature_vectors, feature_vectors_df, feature_vectors_transformed,
                  prediction_feature_vectors>>

Then(err, next) == /\ error' = err
                   /\ pc' = IF err = "" THEN next ELSE "error"

\* The feature group is filled; the registry is empty or holds version 1 of
\* torch_model from an earlier execution.
Init ==
    /\ pc = "split"
    /\ error = ""
    /\ df_original \in FeatureGroups
    /\ registry \in {<< >>, <<EarlierFiles>>}
    /\ X_train = None /\ X_test = None /\ y_train = None
    /\ heap = << >>
    /\ one_hot_encoder = 0 /\ standard_scaler = 0 /\ model = 0
    /\ X_train_transformed = None /\ X_test_transformed = None
    /\ X_train_transformed_tensor = << >> /\ y_train_tensor = << >>
    /\ input_dim = 0
    /\ num_batches = 0 /\ epoch = 0 /\ i = 0 /\ start_idx = 0 /\ end_idx = 0
    /\ batch_X = << >> /\ batch_y = << >> /\ loss = None
    /\ files = None /\ saved_model_dir = None
    /\ retrieved_torch_model = 0
    /\ batch_data = None /\ batch_data_transformed = None /\ predictions_batch = << >>
    /\ feature_vector = None /\ feature_vector_df = None
    /\ feature_vector_transformed = None /\ prediction_feature_vector = << >>
    /\ feature_vectors = None /\ feature_vectors_df = None
    /\ feature_vectors_transformed = None /\ prediction_feature_vectors = << >>

\* X_train, X_test, y_train, y_test = feature_view.train_test_split(test_size=0.1)
Split ==
    /\ pc = "split"
    /\ \E test \in TestSets(Len(df_original)) :
        LET all == Positions(Len(df_original)) IN
        /\ X_train' = FeaturesAt(df_original, SelectSeq(all, LAMBDA k : k \notin test))
        /\ y_train' = LabelsAt(df_original, SelectSeq(all, LAMBDA k : k \notin test))
        /\ X_test' = FeaturesAt(df_original, SelectSeq(all, LAMBDA k : k \in test))
    /\ pc' = "create"
    /\ UNCHANGED <<error, df_original, heap, name_vars, X_train_transformed,
                   X_test_transformed, tensor_vars, loop_vars, store_vars, batch_vars,
                   vector_vars, vectors_vars>>

\* one_hot_encoder = OneHotEncoder(sparse=False); standard_scaler = StandardScaler()
Create ==
    /\ pc = "create"
    /\ heap' = heap \o <<OneHotEncoder, StandardScaler>>
    /\ one_hot_encoder' = Len(heap) + 1
    /\ standard_scaler' = Len(heap) + 2
    /\ pc' = "fit"
    /\ UNCHANGED <<error, data_vars, X_train, model, X_train_transformed,
                   X_test_transformed, tensor_vars, loop_vars, store_vars, batch_vars,
                   vector_vars, vectors_vars>>

\* one_hot_encoder.fit(X_train[['city_name']]); standard_scaler.fit(X_train[['pm2_5']])
Fit ==
    /\ pc = "fit"
    /\ LET e == OneHotEncoder_fit(heap[one_hot_encoder],
                                  DataFrame_getitem(X_train, "city_name").val)
           s == StandardScaler_fit(heap[standard_scaler],
                                   DataFrame_getitem(X_train, "pm2_5").val)
       IN  /\ heap' = [heap EXCEPT ![one_hot_encoder] = e.self,
                                   ![standard_scaler] = IF e.err = "" THEN s.self ELSE @]
           /\ Then(IF e.err # "" THEN e.err ELSE s.err, "transform_train")
    /\ UNCHANGED <<data_vars, X_train, name_vars, X_train_transformed,
                   X_test_transformed, tensor_vars, loop_vars, store_vars, batch_vars,
                   vector_vars, vectors_vars>>

\* The estimators after a transform_data call that returned r.
HeapAfter(r) == [heap EXCEPT ![one_hot_encoder] = r.one_hot_encoder,
                             ![standard_scaler] = r.standard_scaler]
Returned(r) == IF r.err = "" THEN r.ret ELSE None

\* X_train_transformed = transform_data(X_train, one_hot_encoder, standard_scaler)
TransformTrain ==
    /\ pc = "transform_train"
    /\ LET r == transform_data(X_train, heap[one_hot_encoder], heap[standard_scaler]) IN
        /\ X_train' = r.data
        /\ X_train_transformed' = Returned(r)
        /\ heap' = HeapAfter(r)
        /\ Then(r.err, "transform_test")
    /\ UNCHANGED <<data_vars, name_vars, X_test_transformed, tensor_vars, loop_vars,
                   store_vars, batch_vars, vector_vars, vectors_vars>>

\* X_test_transformed = transform_data(X_test, one_hot_encoder, standard_scaler)
TransformTest ==
    /\ pc = "transform_test"
    /\ LET r == transform_data(X_test, heap[one_hot_encoder], heap[standard_scaler]) IN
        /\ X_test' = r.data
        /\ X_test_transformed' = Returned(r)
        /\ heap' = HeapAfter(r)
        /\ Then(r.err, "to_tensor")
    /\ UNCHANGED <<df_original, y_train, X_train, name_vars, X_train_transformed,
                   tensor_vars, loop_vars, store_vars, batch_vars, vector_vars,
                   vectors_vars>>

\* X_train_transformed_tensor = to_tensor(X_train_transformed)
\* y_train_tensor = to_tensor(y_train)
ToTensor ==
    /\ pc = "to_tensor"
    /\ X_train_transformed_tensor' = to_tensor(X_train_transformed)
    /\ y_train_tensor' = to_tensor(y_train)
    /\ pc' = "model"
    /\ UNCHANGED <<error, data_vars, X_train, heap, name_vars, X_train_transformed,
                   X_test_transformed, input_dim, loop_vars, store_vars, batch_vars,
                   vector_vars, vectors_vars>>

\* input_dim = X_train_transformed_tensor.shape[1]
\* model = BinaryClassificationModel(input_dim)
CreateModel ==
    /\ pc = "model"
    /\ input_dim' = Len(X_train_transformed_tensor[1])
    /\ heap' = Append(heap, BinaryClassificationModel(input_dim'))
    /\ model' = Len(heap) + 1
    /\ pc' = "train"
    /\ UNCHANGED <<error, data_vars, X_train, one_hot_encoder, standard_scaler,
                   X_train_transformed, X_test_transformed,
                   X_train_transformed_tensor, y_train_tensor, loop_vars, store_vars,
                   batch_vars, vector_vars, vectors_vars>>

\* The loss values that tell runs apart: BCELoss gives some number.
LossValues == {F(0), F(1)}

\* Mutant: the batches are visited in another order in every epoch.
BatchStart_rotated(k) == ((k + epoch) % num_batches) * batch_size

\* start_idx = i * batch_size
BatchStart(k) == k * batch_size
\* end_idx = start_idx + batch_size
BatchEnd(start) == start + batch_size

\* num_epochs = 5; batch_size = 32
\* num_batches = len(X_train_transformed_tensor) // batch_size
\* From here on epoch and i hold the indexes of the iteration that runs next.
TrainInit ==
    /\ pc = "train"
    /\ num_batches' = NumBatches(Len(X_train_transformed_tensor))
    /\ epoch' = 0
    /\ i' = 0
    /\ pc' = "loop"
    /\ UNCHANGED <<error, data_vars, X_train, heap, name_vars, X_train_transformed,
                   X_test_transformed, tensor_vars, start_idx, end_idx, batch_X,
                   batch_y, loss, store_vars, batch_vars, vector_vars, vectors_vars>>

\* The body of the inner loop, for the batch i of the epoch: the slices, the
\* forward pass, the loss, and one step of the optimizer.
TrainBatch ==
    /\ pc = "loop"
    /\ epoch < num_epochs
    /\ i < num_batches
    /\ start_idx' = BatchStart(i)
    /\ end_idx' = BatchEnd(start_idx')
    /\ batch_X' = PySlice(X_train_transformed_tensor, start_idx', end_idx')
    /\ batch_y' = PySlice(y_train_tensor, start_idx', end_idx')
    /\ LET outputs == forward(heap[model], batch_X') IN
        IF outputs.err # ""
        THEN /\ Then(outputs.err, "loop")
             /\ heap' = [heap EXCEPT ![model] = outputs.self]
             /\ UNCHANGED <<loss, i>>
        ELSE /\ loss' \in LossValues
             /\ heap' = [heap EXCEPT ![model] =
                            optimizer_step(outputs.self, start_idx', end_idx')]
             /\ i' = i + 1
             /\ UNCHANGED <<pc, error>>
    /\ UNCHANGED <<data_vars, X_train, name_vars, X_train_transformed,
                   X_test_transformed, tensor_vars, num_batches, epoch, store_vars,
                   batch_vars, vector_vars, vectors_vars>>

\* for i in range(num_batches) is exhausted: the next epoch.
NextEpoch ==
    /\ pc = "loop"
    /\ epoch < num_epochs
    /\ i = num_batches
    /\ epoch' = epoch + 1
    /\ i' = 0
    /\ UNCHANGED <<pc, error, data_vars, X_train, heap, name_vars, X_train_transformed,
                   X_test_transformed, tensor_vars, num_batches, start_idx, end_idx,
                   batch_X, batch_y, loss, store_vars, batch_vars, vector_vars,
                   vectors_vars>>

\* for epoch in range(num_epochs) is exhausted: the cell is done.
TrainEnd ==
    /\ pc = "loop"
    /\ epoch = num_epochs
    /\ pc' = "dump"
    /\ UNCHANGED <<error, data_vars, X_train, heap, name_vars, X_train_transformed,
                   X_test_transformed, tensor_vars, loop_vars, store_vars, batch_vars,
                   vector_vars, vectors_vars>>

\* joblib.dump of one_hot_encoder, standard_scaler and model into model_dir
Dump ==
    /\ pc = "dump"
    /\ files' = [one_hot_encoder |-> dump(heap[one_hot_encoder]),
                 standard_scaler |-> dump(heap[standard_scaler]),
                 torch_classifier |-> dump(heap[model])]
    /\ pc' = "save"
    /\ UNCHANGED <<error, data_vars, X_train, heap, name_vars, X_train_transformed,
                   X_test_transformed, tensor_vars, loop_vars, registry,
                   saved_model_dir, retrieved_torch_model, batch_vars, vector_vars,
                   vectors_vars>>

\* model = mr.torch.create_model(name="torch_model", ...); model.save(model_dir):
\* no version is given, so the directory is saved as the version after the
\* last one of the registry.
Save ==
    /\ pc = "save"
    /\ heap' = Append(heap, [cls |-> "Model", name |-> "torch_model",
                             version |-> Len(registry) + 1])
    /\ model' = Len(heap) + 1
    /\ registry' = Append(registry, files)
    /\ pc' = "get_model"
    /\ UNCHANGED <<error, data_vars, X_train, one_hot_encoder, standard_scaler,
                   X_train_transformed, X_test_transformed, tensor_vars, loop_vars,
                   files, saved_model_dir, retrieved_torch_model, batch_vars,
                   vector_vars, vectors_vars>>

\* retrieved_model = mr.get_model(name="torch_model", version=1)
\* saved_model_dir = retrieved_model.download()
GetModel ==
    /\ pc = "get_model"
    /\ IF Len(registry) >= 1
       THEN saved_model_dir' = registry[1] /\ Then("", "load")
       ELSE UNCHANGED saved_model_dir /\ Then("RestAPIError", "load")
    /\ UNCHANGED <<data_vars, X_train, heap, name_vars, X_train_transformed,
                   X_test_transformed, tensor_vars, loop_vars, files, registry,
                   retrieved_torch_model, batch_vars, vector_vars, vectors_vars>>

\* retrieved_torch_model, one_hot_encoder, standard_scaler = joblib.load(...):
\* three new objects, and the two names of the estimators bound to them.
Load ==
    /\ pc = "load"
    /\ heap' = heap \o <<load(saved_model_dir.torch_classifier),
                         load(saved_model_dir.one_hot_encoder),
                         load(saved_model_dir.standard_scaler)>>
    /\ retrieved_torch_model' = Len(heap) + 1
    /\ one_hot_encoder' = Len(heap) + 2
    /\ standard_scaler' = Len(heap) + 3
    /\ pc' = "get_batch_data"
    /\ UNCHANGED <<error, data_vars, X_train, model, X_train_transformed,
                   X_test_transformed, tensor_vars, loop_vars, files, registry,
                   saved_model_dir, batch_vars, vector_vars, vectors_vars>>

\* feature_view.init_batch_scoring(1); batch_data = feature_view.get_batch_data():
\* the features of every row of the feature group.
GetBatchData ==
    /\ pc = "get_batch_data"
    /\ batch_data' = FeaturesAt(df_original, Positions(Len(df_original)))
    /\ pc' = "transform_batch"
    /\ UNCHANGED <<error, data_vars, X_train, heap, name_vars, X_train_transformed,
                   X_test_transformed, tensor_vars, loop_vars, store_vars,
                   batch_data_transformed, predictions_batch, vector_vars,
                   vectors_vars>>

\* batch_data_transformed = transform_data(batch_data, one_hot_encoder, standard_scaler)
TransformBatch ==
    /\ pc = "transform_batch"
    /\ LET r == transform_data(batch_data, heap[one_hot_encoder], heap[standard_scaler]) IN
        /\ batch_data' = r.data
        /\ batch_data_transformed' = Returned(r)
        /\ heap' = HeapAfter(r)
        /\ Then(r.err, "predict_batch")
    /\ UNCHANGED <<data_vars, X_train, name_vars, X_train_transformed,
                   X_test_transformed, tensor_vars, loop_vars, store_vars,
                   predictions_batch, vector_vars, vectors_vars>>

\* predictions_batch = retrieved_torch_model(to_tensor(batch_data_transformed))
PredictBatch ==
    /\ pc = "predict_batch"
    /\ LET r == forward(heap[retrieved_torch_model], to_tensor(batch_data_transformed)) IN
        /\ predictions_batch' = IF r.err = "" THEN r.val ELSE predictions_batch
        /\ Then(r.err, "get_feature_vector")
        /\ heap' = [heap EXCEPT ![retrieved_torch_model] = r.self]
    /\ UNCHANGED <<data_vars, X_train, name_vars, X_train_transformed,
                   X_test_transformed, tensor_vars, loop_vars, store_vars, batch_data,
                   batch_data_transformed, vector_vars, vectors_vars>>

\* The positions of the rows a key of the city Amsterdam may name: every
\* distinct row of the feature group is among its first MaxBase rows.
AmsterdamRows ==
    {k \in 1..Len(df_original) : k <= MaxBase /\ df_original[k][1] = "Amsterdam"}
ServingVector(k) == PyList(<<S(df_original[k][1]), F(df_original[k][2])>>)

\* feature_view.init_serving(1)
\* feature_vector = feature_view.get_feature_vector(entry={Amsterdam, 2013-01-01}):
\* the features of the row of that key; no such row is an error.
GetFeatureVector ==
    /\ pc = "get_feature_vector"
    /\ IF AmsterdamRows = {}
       THEN UNCHANGED feature_vector /\ Then("FeatureStoreException", "to_df")
       ELSE /\ \E k \in AmsterdamRows : feature_vector' = ServingVector(k)
            /\ Then("", "to_df")
    /\ UNCHANGED <<data_vars, X_train, heap, name_vars, X_train_transformed,
                   X_test_transformed, tensor_vars, loop_vars, store_vars, batch_vars,
                   feature_vector_df, feature_vector_transformed,
                   prediction_feature_vector, vectors_vars>>

\* feature_vector_df = to_df(feature_vector)
ToDf ==
    /\ pc = "to_df"
    /\ LET r == to_df(feature_vector) IN
        /\ feature_vector_df' = IF r.err = "" THEN r.val ELSE None
        /\ Then(r.err, "transform_vector")
    /\ UNCHANGED <<data_vars, X_train, heap, name_vars, X_train_transformed,
                   X_test_transformed, tensor_vars, loop_vars, store_vars, batch_vars,
                   feature_vector, feature_vector_transformed,
                   prediction_feature_vector, vectors_vars>>

\* feature_vector_transformed = transform_data(feature_vector_df, ...)
TransformVector ==
    /\ pc = "transform_vector"
    /\ LET r == transform_data(feature_vector_df, heap[one_hot_encoder],
                               heap[standard_scaler]) IN
        /\ feature_vector_df' = r.data
        /\ feature_vector_transformed' = Returned(r)
        /\ heap' = HeapAfter(r)
        /\ Then(r.err, "predict_vector")
    /\ UNCHANGED <<data_vars, X_train, name_vars, X_train_transformed,
                   X_test_transformed, tensor_vars, loop_vars, store_vars, batch_vars,
                   feature_vector, prediction_feature_vector, vectors_vars>>

\* prediction_feature_vector = retrieved_torch_model(to_tensor(feature_vector_transformed))
PredictVector ==
    /\ pc = "predict_vector"
    /\ LET r == forward(heap[retrieved_torch_model],
                        to_tensor(feature_vector_transformed)) IN
        /\ prediction_feature_vector' = IF r.err = "" THEN r.val ELSE prediction_feature_vector
        /\ Then(r.err, "get_feature_vectors")
        /\ heap' = [heap EXCEPT ![retrieved_torch_model] = r.self]
    /\ UNCHANGED <<data_vars, X_train, name_vars, X_train_transformed,
                   X_test_transformed, tensor_vars, loop_vars, store_vars, batch_vars,
                   feature_vector, feature_vector_df, feature_vector_transformed,
                   vectors_vars>>

\* feature_vectors = feature_view.get_feature_vectors(entry=[{Amsterdam,
\* 2013-01-01}, {Amsterdam, 2014-01-01}]): the features of the rows of the two
\* keys, in the order of the keys.
GetFeatureVectors ==
    /\ pc = "get_feature_vectors"
    /\ \E k1, k2 \in AmsterdamRows :
        feature_vectors' = PyList(<<ServingVector(k1), ServingVector(k2)>>)
    /\ pc' = "to_dfs"
    /\ UNCHANGED <<error, data_vars, X_train, heap, name_vars, X_train_transformed,
                   X_test_transformed, tensor_vars, loop_vars, store_vars, batch_vars,
                   vector_vars, feature_vectors_df, feature_vectors_transformed,
                   prediction_feature_vectors>>

\* feature_vectors_df = to_df(feature_vectors)
ToDfs ==
    /\ pc = "to_dfs"
    /\ LET r == to_df(feature_vectors) IN
        /\ feature_vectors_df' = IF r.err = "" THEN r.val ELSE None
        /\ Then(r.err, "transform_vectors")
    /\ UNCHANGED <<data_vars, X_train, heap, name_vars, X_train_transformed,
                   X_test_transformed, tensor_vars, loop_vars, store_vars, batch_vars,
                   vector_vars, feature_vectors, feature_vectors_transformed,
                   prediction_feature_vectors>>

\* feature_vectors_transformed = transform_data(feature_vectors_df, ...)
TransformVectors ==
    /\ pc = "transform_vectors"
    /\ LET r == transform_data(feature_vectors_df, heap[one_hot_encoder],
                               heap[standard_scaler]) IN
        /\ feature_vectors_df' = r.data
        /\ feature_vectors_transformed' = Returned(r)
        /\ heap' = HeapAfter(r)
        /\ Then(r.err, "predict_vectors")
    /\ UNCHANGED <<data_vars, X_train, name_vars, X_train_transformed,
                   X_test_transformed, tensor_vars, loop_vars, store_vars, batch_vars,
                   vector_vars, feature_vectors, prediction_feature_vectors>>

\* prediction_feature_vectors = retrieved_torch_model(to_tensor(feature_vectors_transformed))
PredictVectors ==
    /\ pc = "predict_vectors"
    /\ LET r == forward(heap[retrieved_torch_model],
                        to_tensor(feature_vectors_transformed)) IN
        /\ prediction_feature_vectors' = IF r.err = "" THEN r.val ELSE prediction_feature_vectors
        /\ Then(r.err, "done")
        /\ heap' = [heap EXCEPT ![retrieved_torch_model] = r.self]
    /\ UNCHANGED <<data_vars, X_train, name_vars, X_train_transformed,
                   X_test_transformed, tensor_vars, loop_vars, store_vars, batch_vars,
                   vector_vars, feature_vectors, feature_vectors_df,
                   feature_vectors_transformed>>

Next ==
    \/ Split \/ Create \/ Fit \/ TransformTrain \/ TransformTest \/ ToTensor
    \/ CreateModel \/ TrainInit \/ TrainBatch \/ NextEpoch \/ TrainEnd
    \/ Dump \/ Save \/ GetModel \/ Load
    \/ GetBatchData \/ TransformBatch \/ PredictBatch
    \/ GetFeatureVector \/ ToDf \/ TransformVector \/ PredictVector
    \/ GetFeatureVectors \/ ToDfs \/ TransformVectors \/ PredictVectors

Spec == Init /\ [][Next]_vars

\* The training cell, once started, keeps running: the interpreter goes on to
\* the next iteration of its loops, and past them, whenever there is one.
TrainingCell == TrainInit \/ TrainBatch \/ NextEpoch \/ TrainEnd
FairSpec == Spec /\ WF_vars(TrainingCell)

-----------------------------------------------------------------------------
(* Claims about to_df and transform_data, checked under SpecFn.            *)

Sign(x) == IF x > 0 THEN 1 ELSE IF x < 0 THEN -1 ELSE 0

\* The cities of a frame, and the cell of row k under the column `name`.
CitiesOf(df) == {Column(df, "city_name")[k].str : k \in 1..NRows(df)}
Cell(df, k, name) == df.values[k][ColIdx(df, name)]

\* transform_data has been called with fitted estimators.
Applied == pc = "fn_applied"
\* ... on a table of cities that were all in the table of the fit.
AppliedToKnown == Applied /\ CitiesOf(batch_data) \subseteq CitiesOf(X_train)

\* The categories of the fit: the cities of X_train, sorted.
FitCategories == SelectSeq(CityOrder, LAMBDA c : c \in CitiesOf(X_train))

\* C1: applied to a table whose cities were all seen by the fit,
\* transform_data returns a frame in which city_name is replaced by one 0/1
\* column per category of the fit, in the order the fit fixed; in every row
\* the column of the row's city is 1 and every other one is 0, so exactly
\* one column is 1 and it names the city.
C1_OneHotPerFitCategory ==
    AppliedToKnown =>
        /\ error = ""
        /\ heap[one_hot_encoder].categories_[1] = FitCategories
        /\ ~HasCol(batch_data_transformed, "city_name")
        /\ SubSeq(batch_data_transformed.columns,
                  Len(batch_data.columns), Len(batch_data_transformed.columns))
               = FitCategories
        /\ \A k \in 1..NRows(batch_data) :
             /\ \A j \in 1..Len(FitCategories) :
                  Cell(batch_data_transformed, k, FitCategories[j])
                    = IF Cell(batch_data, k, "city_name").str = FitCategories[j]
                      THEN F(1) ELSE F(0)
             /\ Cardinality({j \in 1..Len(FitCategories) :
                    Cell(batch_data_transformed, k, FitCategories[j]) = F(1)}) = 1

\* Fitted on Amsterdam and Paris, applied to the rows Paris, Amsterdam: the
\* columns are Amsterdam, Paris and the rows are [0,1], [1,0].
C1_Witness ==
    /\ Applied /\ error = ""
    /\ FitCategories = <<"Amsterdam", "Paris">>
    /\ NRows(batch_data) = 2
    /\ Cell(batch_data, 1, "city_name") = S("Paris")
    /\ Cell(batch_data, 2, "city_name") = S("Amsterdam")
    /\ Cell(batch_data_transformed, 1, "Amsterdam") = F(0)
    /\ Cell(batch_data_transformed, 1, "Paris") = F(1)
    /\ Cell(batch_data_transformed, 2, "Amsterdam") = F(1)
    /\ Cell(batch_data_transformed, 2, "Paris") = F(0)

\* The statistics of the pm2_5 column of the fit table, X_train: the number
\* of rows, their sum, and n * n * the population variance.
FitN == NRows(X_train)
FitSum == SumSeq([k \in 1..FitN |-> Cell(X_train, k, "pm2_5").num])
FitSumSq == SumSeq([k \in 1..FitN |->
                Cell(X_train, k, "pm2_5").num * Cell(X_train, k, "pm2_5").num])
FitVarN2 == FitN * FitSumSq - FitSum * FitSum

\* z * std = v - mean, for z = z.num / sqrt(z.den2), std = sqrt(FitVarN2) / n
\* and mean = FitSum / n.
TimesStdIsCentered(z, v) ==
    /\ IsNum(z)
    /\ Sign(z.num) = Sign(FitN * v - FitSum) \/ FitVarN2 = 0
    /\ z.num * z.num * FitVarN2 = (FitN * v - FitSum) * (FitN * v - FitSum) * z.den2

\* z = v - mean.
IsCentered(z, v) ==
    /\ IsNum(z)
    /\ Sign(z.num) = Sign(FitN * v - FitSum)
    /\ z.num * z.num * FitN * FitN = (FitN * v - FitSum) * (FitN * v - FitSum) * z.den2

\* C2 as stated: every pm2_5 value v becomes (v - mean) / std, mean and std
\* being the population statistics of the fit table's pm2_5 column.
C2_ScaledByFitStatistics ==
    (Applied /\ error = "") =>
        \A k \in 1..NRows(batch_data) :
            TimesStdIsCentered(Cell(batch_data_transformed, k, "pm2_5"),
                               Cell(batch_data, k, "pm2_5").num)

\* C2, amended: every pm2_5 value v becomes (v - mean) / std with the
\* population statistics of the fit table when that std is not zero, and
\* v - mean when it is zero (a constant column, scaled by 1); in both cases
\* nothing of the applied table but v enters the result.
C2_ScaledByFitStatisticsOrCentered ==
    (Applied /\ error = "") =>
        \A k \in 1..NRows(batch_data) :
            LET z == Cell(batch_data_transformed, k, "pm2_5")
                v == Cell(batch_data, k, "pm2_5").num
            IN  IF FitVarN2 # 0 THEN TimesStdIsCentered(z, v) ELSE IsCentered(z, v)

\* Fitted on [10, 30] (mean 20, std 10), applied to 20 next to a 10: the 20
\* becomes 0 and the 10 becomes -1 = -20 / sqrt(400).
C2_Witness ==
    /\ Applied /\ error = ""
    /\ FitN = 2 /\ FitSum = 40 /\ FitVarN2 = 400
    /\ NRows(batch_data) = 2
    /\ Cell(batch_data, 1, "pm2_5") = F(20)
    /\ Cell(batch_data, 2, "pm2_5") = F(10)
    /\ Cell(batch_data_transformed, 1, "pm2_5").num = 0
    /\ Cell(batch_data_transformed, 2, "pm2_5") = [num |-> -20, den2 |-> 400]

\* to_df has been called; the vectors of its argument.
ToDfCalled == pc = "fn_to_df"
IsSequenceOfVectors(v) == Len(v.list) >= 1 /\ IsList(v.list[1])
VectorsOf(v) == IF IsSequenceOfVectors(v) THEN v.list ELSE <<v>>

\* C3: for a list of n >= 1 two-element vectors to_df returns the frame of
\* the columns city_name and pm2_5 with n rows, row k holding the two
\* elements of the k-th vector.
C3_OneRowPerVector ==
    (/\ ToDfCalled
     /\ IsSequenceOfVectors(feature_vector)
     /\ \A k \in 1..Len(feature_vector.list) : Len(feature_vector.list[k].list) = 2)
    =>
        /\ error = ""
        /\ feature_vector_df.columns = <<"city_name", "pm2_5">>
        /\ NRows(feature_vector_df) = Len(feature_vector.list)
        /\ \A k \in 1..Len(feature_vector.list) :
             feature_vector_df.values[k]
                = <<feature_vector.list[k].list[1], feature_vector.list[k].list[2]>>

\* Two different vectors, in the frame in the order they were given.
C3_Witness ==
    /\ ToDfCalled /\ error = ""
    /\ feature_vector = PyList(<<VectorOf("Paris", 20, 2), VectorOf("Amsterdam", 10, 2)>>)
    /\ feature_vector_df.values = << <<S("Paris"), F(20)>>, <<S("Amsterdam"), F(10)>> >>

\* C4: applied to a table with a city that the fit has not seen,
\* transform_data raises and returns no frame.
C4_UnseenCategoryRaises ==
    (Applied /\ ~(CitiesOf(batch_data) \subseteq CitiesOf(X_train))) =>
        /\ error = "ValueError"
        /\ batch_data_transformed = None

\* Fitted on Amsterdam and Paris, applied to a table with Berlin in it.
C4_Witness ==
    /\ Applied
    /\ CitiesOf(X_train) = {"Amsterdam", "Paris"}
    /\ "Berlin" \in CitiesOf(batch_data)
    /\ "Amsterdam" \in CitiesOf(batch_data)
    /\ error = "ValueError"
    /\ batch_data_transformed = None

\* C5: to_df raises, and returns no frame, whenever a vector of its argument
\* has fewer or more than two elements.
C5_WrongArityRaises ==
    (/\ ToDfCalled
     /\ \E k \in 1..Len(VectorsOf(feature_vector)) :
            Len(VectorsOf(feature_vector)[k].list) # 2)
    =>
        /\ error # ""
        /\ feature_vector_df = None

\* C6: transform_data returns as many rows as it is given, in the same
\* order: row k of the result holds the unchanged cells of row k for every
\* column but city_name and pm2_5, the code of row k's city, and the
\* standardised pm2_5 of row k.
C6_OtherColumnsAndRowOrderKept ==
    AppliedToKnown =>
        /\ error = ""
        /\ NRows(batch_data_transformed) = NRows(batch_data)
        /\ \A k \in 1..NRows(batch_data) :
             /\ \A j \in 1..Len(batch_data.columns) :
                  batch_data.columns[j] \notin {"city_name", "pm2_5"} =>
                      /\ HasCol(batch_data_transformed, batch_data.columns[j])
                      /\ Cell(batch_data_transformed, k, batch_data.columns[j])
                            = batch_data.values[k][j]
             /\ Cell(batch_data_transformed, k, Cell(batch_data, k, "city_name").str) = F(1)
             /\ Cell(batch_data_transformed, k, "pm2_5")
                    = Standardize(heap[standard_scaler], Cell(batch_data, k, "pm2_5"))

\* A table with a third column and a shuffled index, its two rows differing
\* in every column: the third column comes out as it went in.
C6_Witness ==
    /\ Applied /\ error = ""
    /\ batch_data.columns = <<"other", "city_name", "pm2_5">>
    /\ batch_data.index = <<1, 0>>
    /\ Cell(batch_data, 1, "city_name") # Cell(batch_data, 2, "city_name")
    /\ Cell(batch_data, 1, "pm2_5") # Cell(batch_data, 2, "pm2_5")
    /\ Cell(batch_data_transformed, 1, "other") = F(101)
    /\ Cell(batch_data_transformed, 2, "other") = F(102)
    /\ batch_data_transformed.index = <<0, 1>>

-----------------------------------------------------------------------------
(* Claims about the training loop and the fitted state, checked under Spec *)
(* and FairSpec.                                                           *)

\* N, the rows of the training split, and floor(N / B).
TrainRows == NRows(X_train)
FullBatches == TrainRows \div batch_size
\* The batches the optimizer has stepped on, in order.
Steps == heap[model].params
InTraining == pc = "loop"
Trained == pc = "dump"

\* C7: an epoch processes floor(N/B) batches, so that after `epoch` epochs
\* and i batches of the next one the optimizer has stepped epoch * floor(N/B)
\* + i times, i never passing floor(N/B); every batch has B rows of features
\* and B labels; no batch reaches into the last N mod B rows; and with N < B
\* no batch is processed at all.
C7_FullBatchesOnly ==
    (InTraining \/ Trained) =>
        /\ i <= FullBatches
        /\ Len(Steps) = epoch * FullBatches + i
        /\ \A m \in 1..Len(Steps) :
             /\ Steps[m][2] - Steps[m][1] = batch_size
             /\ Steps[m][1] >= 0
             /\ Steps[m][2] <= TrainRows - (TrainRows % batch_size)
        /\ Len(Steps) > 0 =>
             /\ Len(batch_X) = batch_size
             /\ Len(batch_y) = batch_size
             /\ end_idx <= TrainRows - (TrainRows % batch_size)
        /\ TrainRows < batch_size => (Steps = << >> /\ batch_X = << >>)

\* 99 training rows: the third batch of the second epoch is done, it ends at
\* row 96 and the rows 96, 97 and 98 are in no batch.
C7_Witness ==
    /\ InTraining
    /\ TrainRows = 99 /\ FullBatches = 3
    /\ epoch = 1 /\ i = 3
    /\ Len(Steps) = 6
    /\ end_idx = 96
    /\ Len(batch_X) = 32

\* Fewer rows than one batch: the loops are over and the optimizer has not
\* stepped.
C7_WitnessNoBatch ==
    Trained /\ TrainRows < batch_size /\ Steps = << >>

\* C8: once the training cell is started it ends, with num_epochs *
\* floor(N/B) optimizer steps done, whatever the losses were.
C8_TrainingTerminates ==
    (pc = "train") ~> (Trained /\ Len(Steps) = num_epochs * FullBatches)

\* The training cell has ended after 5 * 3 steps, the last loss being the
\* high one.
C8_Witness ==
    /\ Trained
    /\ FullBatches = 3
    /\ Len(Steps) = 15
    /\ epoch = num_epochs
    /\ loss = F(1)

\* C9: the m-th step of the optimizer is on the rows [j*B, (j+1)*B), j being
\* m's place within its epoch, the same in every epoch; the rows of features
\* and the labels of the current batch are those of these positions of the
\* transformed training split and of y_train, row for row.
C9_SameContiguousBatchesEveryEpoch ==
    ((InTraining \/ Trained) /\ Len(Steps) > 0) =>
        /\ FullBatches > 0
        /\ \A m \in 1..Len(Steps) :
             Steps[m] = <<((m - 1) % FullBatches) * batch_size,
                          (((m - 1) % FullBatches) + 1) * batch_size>>
        /\ <<start_idx, end_idx>> = Steps[Len(Steps)]
        /\ Len(batch_X) = end_idx - start_idx
        /\ Len(batch_y) = end_idx - start_idx
        /\ \A r \in 1..Len(batch_X) :
             /\ batch_X[r] = X_train_transformed.values[start_idx + r]
             /\ batch_y[r] = y_train.values[start_idx + r]

\* The second batch of the third epoch, on the rows 32..63, of a training
\* split whose rows are not all the same.
C9_Witness ==
    /\ InTraining
    /\ epoch = 2 /\ i = 2
    /\ start_idx = 32 /\ end_idx = 64
    /\ Steps[2] = <<32, 64>>
    /\ Steps[Len(Steps)] = <<32, 64>>
    /\ batch_X[1] # batch_X[2]
    /\ batch_y[1] # batch_y[2]

IsEstimator(obj) == obj.cls \in {"OneHotEncoder", "StandardScaler"}
IsNetwork(obj) == obj.cls = "BinaryClassificationModel"

\* C10: no step changes an estimator that has been fitted, and the only
\* step that changes the weights of a network is a batch of the training
\* loop, on the network it trains, by one optimizer step.  An object is a
\* position of heap: joblib.load binds the names to new objects, which is no
\* change of the fitted ones; what the loaded objects hold is the matter of
\* C12 and C18.
C10_FittedStateWrittenOnce ==
    [][\A id \in 1..Len(heap) :
          /\ Len(heap') >= Len(heap)
          /\ (IsEstimator(heap[id]) /\ heap[id].fitted) => heap'[id] = heap[id]
          /\ (IsNetwork(heap[id]) /\ heap'[id] # heap[id]) =>
                /\ pc = "loop" /\ id = model
                /\ heap'[id] = [heap[id] EXCEPT
                                  !.params = Append(@, <<start_idx', end_idx'>>)]
      ]_vars

\* The last cell has run: the estimators fitted on X_train and the network
\* trained on it are still what the fit and the 15 optimizer steps made them,
\* next to the three objects that were loaded.
C10_Witness ==
    /\ pc = "done"
    /\ Len(heap) = 7
    /\ heap[1].fitted /\ heap[1].categories_ = <<FitCategories>>
    /\ heap[2].fitted /\ heap[2].n_samples_seen_ = TrainRows
    /\ heap[2].mean_ = [num |-> FitSum, den |-> FitN]
    /\ Len(heap[3].params) = 15
    /\ one_hot_encoder = 6 /\ standard_scaler = 7

-----------------------------------------------------------------------------
(* Claims about the order of the fit and of the transform_data calls, under *)
(* Spec.                                                                   *)

\* The cells that call transform_data.
TransformCells ==
    {"transform_train", "transform_test", "transform_batch", "transform_vector",
     "transform_vectors"}

\* The estimators the names one_hot_encoder and standard_scaler are bound to.
Encoder == heap[one_hot_encoder]
Scaler == heap[standard_scaler]

\* What fitting the new estimators on the training split gives.
FittedOnTrain(obj) ==
    IF obj.cls = "OneHotEncoder"
    THEN OneHotEncoder_fit(OneHotEncoder, DataFrame_getitem(X_train, "city_name").val).self
    ELSE StandardScaler_fit(StandardScaler, DataFrame_getitem(X_train, "pm2_5").val).self

\* C11: every cell that calls transform_data finds the encoder and the
\* scaler fitted; an estimator changes in one cell only, the fit cell, which
\* runs once, right after the estimators are created, and makes of the two
\* unfitted estimators what a fit on X_train gives; no other cell, and no
\* transform_data call, fits an estimator again.
C11_FittedOnceBeforeEveryApply ==
    /\ [](pc \in TransformCells => (Encoder.fitted /\ Scaler.fitted))
    /\ [][/\ pc' = "fit" => pc = "create"
          /\ pc = "fit" => pc' \in {"transform_train", "error"}
          /\ \A id \in 1..Len(heap) :
                (IsEstimator(heap[id]) /\ heap'[id] # heap[id]) =>
                    /\ pc = "fit"
                    /\ ~heap[id].fitted
                    /\ heap'[id] = FittedOnTrain(heap[id])
         ]_vars

\* The last transform_data call is about to run, in a first execution: the
\* estimators created in the second cell were fitted on the 99 rows of
\* X_train, and four transform_data calls have returned since.
C11_Witness ==
    /\ pc = "transform_vectors"
    /\ Len(registry) = 1
    /\ heap[1].fitted /\ heap[2].fitted
    /\ heap[2].n_samples_seen_ = 99
    /\ Encoder.fitted /\ Scaler.fitted
    /\ X_train_transformed # None /\ X_test_transformed # None
    /\ batch_data_transformed # None /\ feature_vector_transformed # None

-----------------------------------------------------------------------------
(* Claims about the model registry, under Spec.                            *)

\* The loading cell has run; the network it loaded.
Loaded == retrieved_torch_model # 0
RetrievedNetwork == heap[retrieved_torch_model]

\* The version create_model gave to the directory this execution saved, and
\* the version get_model asks for.
SavedVersion == heap[model].version
LookedUpVersion == 1

\* The files of model_dir hold the pickles of the objects the names are bound to.
DumpedAre(enc, scl, net) ==
    /\ files.one_hot_encoder = dump(enc)
    /\ files.standard_scaler = dump(scl)
    /\ files.torch_classifier = dump(net)

\* What holds of the persistence in every execution: the registry returns,
\* for the version saved, the directory that was saved, and the loaded
\* objects are those pickled in the directory of the version looked up.
RegistryRoundTrip ==
    /\ pc \in {"get_model", "load"} => registry[SavedVersion] = files
    /\ Loaded => /\ saved_model_dir = registry[LookedUpVersion]
                 /\ saved_model_dir.one_hot_encoder = dump(Encoder)
                 /\ saved_model_dir.standard_scaler = dump(Scaler)
                 /\ saved_model_dir.torch_classifier = dump(RetrievedNetwork)
    /\ (Loaded /\ SavedVersion = LookedUpVersion) =>
            DumpedAre(Encoder, Scaler, RetrievedNetwork)

\* C12: the encoder, the scaler and the classifier loaded by the inference
\* pipeline have the categories, the mean and scale, and the weights of the
\* ones that were dumped.
C12_LoadedStateIsDumpedState ==
    Loaded =>
        /\ Encoder.categories_ = load(files.one_hot_encoder).categories_
        /\ Scaler.mean_ = load(files.standard_scaler).mean_
        /\ Scaler.scale_ = load(files.standard_scaler).scale_
        /\ RetrievedNetwork.params = load(files.torch_classifier).params

\* C18: in every execution, a registry that already holds versions of
\* torch_model included, the version get_model looks up is the version
\* create_model has just saved, and the directory downloaded, from which
\* the three objects are loaded, is the one this execution dumped.
C18_LookedUpVersionIsSavedVersion ==
    saved_model_dir # None =>
        /\ LookedUpVersion = SavedVersion
        /\ saved_model_dir = files

-----------------------------------------------------------------------------
(* Claims about the three paths of the transformation, under Spec.         *)

\* The raw table and the transformed table of the training path, of the
\* batch path, and of the online path with one vector and with several.
Paths ==
    {<<X_train, X_train_transformed>>,
     <<batch_data, batch_data_transformed>>,
     <<feature_vector_df, feature_vector_transformed>>,
     <<feature_vectors_df, feature_vectors_transformed>>}
Transformed == {p \in Paths : p[2] # None}

\* Rows of the raw tables a and b that are the same are the same after the
\* transformation.
SameRowSameTransform(a, b) ==
    \A k \in 1..NRows(a[1]), j \in 1..NRows(b[1]) :
        a[1].values[k] = b[1].values[j] => a[2].values[k] = b[2].values[j]

\* No earlier execution has saved torch_model.
FirstExecution == registry \in {<< >>, <<files>>}

\* What holds of the paths in a first execution.
ConsistentInFirstExecution ==
    FirstExecution =>
        \A a, b \in Transformed :
            /\ SameRowSameTransform(a, b)
            /\ input_dim # 0 => Len(a[2].columns) = input_dim

\* C13: a raw row (city, pm2_5) is transformed into the same row on the
\* training path, on the batch path and on the online path, and the
\* transformed tables of all paths are as wide as the input of the
\* classifier created for the training.
C13_SameTransformOnEveryPath ==
    \A a, b \in Transformed :
        /\ SameRowSameTransform(a, b)
        /\ input_dim # 0 => Len(a[2].columns) = input_dim

-----------------------------------------------------------------------------
(* Claims about transform_data called on its own, under SpecFn.            *)

\* transform_data has been called with an encoder or a scaler that was not
\* fitted.
AppliedUnfitted == pc = "fn_unfitted"

\* C14: called with an encoder or a scaler that is not fitted,
\* transform_data raises and returns no table; a missing fit is reported as
\* NotFittedError unless the fitted encoder has met a city it does not know
\* before the scaler was reached; the estimator that was not fitted is left
\* as it was created, so nothing has fitted it on the way.
C14_UnfittedRaises ==
    AppliedUnfitted =>
        /\ error \in {"NotFittedError", "ValueError"}
        /\ error = "ValueError" =>
                (Encoder.fitted /\ ~(CitiesOf(batch_data) \subseteq CitiesOf(X_train)))
        /\ batch_data_transformed = None
        /\ Encoder = OneHotEncoder \/ Scaler = StandardScaler
        /\ Encoder.fitted => Encoder = FittedOnTrain(Encoder)
        /\ Scaler.fitted => Scaler = FittedOnTrain(Scaler)

\* The encoder is fitted on Amsterdam and Paris and the scaler is not:
\* transform_data, called on a table of these cities, has raised at the
\* scaler.
C14_Witness ==
    /\ AppliedUnfitted
    /\ Encoder.fitted /\ ~Scaler.fitted
    /\ CitiesOf(X_train) = {"Amsterdam", "Paris"}
    /\ CitiesOf(batch_data) = {"Amsterdam", "Paris"}
    /\ error = "NotFittedError"
    /\ batch_data_transformed = None

-----------------------------------------------------------------------------
(* Claims about the classifier called on its own, under SpecFn.            *)

\* The cells of the rows of the tensor the classifier was called on, and the
\* outputs that are probabilities.
HasNaN(row) == \E j \in 1..Len(row) : IsNaN(row[j])
IsProbability(y) == "sigmoid" \in DOMAIN y
Predicted == pc \in {"fn_predicted", "fn_predicted_again", "fn_predicted_row"} /\ error = ""

\* The same call again gives the same outputs, the output of a row is what
\* the call on that row alone gives, and the network is still one of those
\* that were created.
OutputsAgree ==
    /\ pc \in {"fn_predicted_again", "fn_predicted_row"} =>
            prediction_feature_vectors = predictions_batch
    /\ pc = "fn_predicted_row" =>
            prediction_feature_vector = <<predictions_batch[i + 1]>>
    /\ pc \in {"fn_model", "fn_predicted", "fn_predicted_again", "fn_predicted_row"} =>
            heap[model] \in FnNetworks

-----------------------------------------------------------------------------
(* Claims about a second transform_data call, under SpecFn.                *)

\* transform_data has been called on the frame an earlier call returned.
Reapplied == pc = "fn_reapplied"

\* C16: called on a frame that transform_data has returned, transform_data
\* raises KeyError, the city_name column being gone, and returns nothing:
\* the frame is still what one call makes of the raw table, its pm2_5
\* column standardised once.
C16_SecondApplicationRaises ==
    Reapplied =>
        /\ error = "KeyError"
        /\ ~HasCol(batch_data_transformed, "city_name")
        /\ batch_data_transformed = transform_data(batch_data, Encoder, Scaler).ret
        /\ \A k \in 1..NRows(batch_data) :
             LET z == Cell(batch_data_transformed, k, "pm2_5")
                 v == Cell(batch_data, k, "pm2_5").num
             IN  IF FitVarN2 # 0 THEN TimesStdIsCentered(z, v) ELSE IsCentered(z, v)

\* Fitted on [10, 30], applied to a 10 in Amsterdam, and applied again to the
\* result: the second call has raised and the 10 is still -1 = -20 / sqrt(400).
C16_Witness ==
    /\ Reapplied
    /\ error = "KeyError"
    /\ FitN = 2 /\ FitSum = 40 /\ FitVarN2 = 400
    /\ Cell(batch_data, 1, "pm2_5") = F(10)
    /\ Cell(batch_data, 1, "city_name") = S("Amsterdam")
    /\ Cell(batch_data_transformed, 1, "pm2_5") = [num |-> -20, den2 |-> 400]
    /\ Cell(batch_data_transformed, 1, "Amsterdam") = F(1)

-----------------------------------------------------------------------------
(* Claims about the two forms of to_df's argument, under SpecFn.           *)

\* A flat vector [city, pm2_5].
IsWellFormedVector(v) ==
    /\ IsList(v)
    /\ Len(v.list) = 2
    /\ ~IsList(v.list[1])

\* C17: for a vector v = [city, pm2_5], to_df(v) and to_df([v]) return the
\* same frame of one row: whichever of the two forms to_df was called on,
\* it has returned what it returns on the other.
C17_SingleVectorIsOneElementSequence ==
    /\ (ToDfCalled /\ IsWellFormedVector(feature_vector)) =>
            /\ error = ""
            /\ NRows(feature_vector_df) = 1
            /\ to_df(PyList(<<feature_vector>>)) = Ok(feature_vector_df)
    /\ (/\ ToDfCalled
        /\ IsSequenceOfVectors(feature_vector)
        /\ Len(feature_vector.list) = 1
        /\ IsWellFormedVector(feature_vector.list[1])) =>
            /\ error = ""
            /\ NRows(feature_vector_df) = 1
            /\ to_df(feature_vector.list[1]) = Ok(feature_vector_df)

\* to_df has been called on ['Paris', 20] and has returned the row Paris, 20
\* under the label 0.
C17_Witness ==
    /\ ToDfCalled
    /\ feature_vector = PyList(<<S("Paris"), F(20)>>)
    /\ error = ""
    /\ feature_vector_df =
            DataFrame(<<"city_name", "pm2_5">>, <<0>>, <<<<S("Paris"), F(20)>>>>)

-----------------------------------------------------------------------------
(* Claims about the row labels of transform_data's argument, under SpecFn. *)

\* The cells of the frame df that are NaN.
NaNCells(df) ==
    {<<k, j>> \in (1..NRows(df)) \X (1..Len(df.columns)) : IsNaN(df.values[k][j])}

\* C19: whatever the row labels of the table (contiguous or not, shuffled,
\* duplicated), transform_data returns, for cities the fit has seen, a
\* frame with one row per row of the table, under the labels 0..n-1, in
\* which the one-hot columns of row k encode the city of row k of the
\* table, and no cell is a NaN that the concatenation has filled in.
C19_RowsAlignedByPosition ==
    AppliedToKnown =>
        /\ error = ""
        /\ NRows(batch_data_transformed) = NRows(batch_data)
        /\ batch_data_transformed.index = RangeIndex(NRows(batch_data))
        /\ NaNCells(batch_data_transformed) = {}
        /\ \A k \in 1..NRows(batch_data) :
             [j \in 1..Len(FitCategories) |->
                 Cell(batch_data_transformed, k, FitCategories[j])]
               = OneHot(FitCategories, Cell(batch_data, k, "city_name"))

\* A table of two rows under the same label 7, Paris then Amsterdam: the
\* first row comes out as Paris and the second as Amsterdam, under the
\* labels 0 and 1.
C19_Witness ==
    /\ Applied /\ error = ""
    /\ batch_data.index = <<7, 7>>
    /\ FitCategories = <<"Amsterdam", "Paris">>
    /\ Cell(batch_data, 1, "city_name") = S("Paris")
    /\ Cell(batch_data, 2, "city_name") = S("Amsterdam")
    /\ batch_data_transformed.index = <<0, 1>>
    /\ Cell(batch_data_transformed, 1, "Paris") = F(1)
    /\ Cell(batch_data_transformed, 2, "Paris") = F(0)
    /\ Cell(batch_data_transformed, 2, "Amsterdam") = F(1)

-----------------------------------------------------------------------------
(* Claims about the arguments of transform_data and to_df, under Spec.     *)

\* The table each transform_data cell passes.
ArgumentOf(cell) ==
    CASE cell = "transform_train" -> X_train
      [] cell = "transform_test" -> X_test
      [] cell = "transform_batch" -> batch_data
      [] cell = "transform_vector" -> feature_vector_df
      [] cell = "transform_vectors" -> feature_vectors_df

\* C20: a cell that calls transform_data, whether the call returns or
\* raises, leaves the table it passes as it was, the city_name column, the
\* pm2_5 values and the row labels included, and leaves the two estimators
\* as they were, so that the same call again returns the same frame; a cell
\* that calls to_df leaves the vectors it passes as they were.
C20_ArgumentsUnchanged ==
    [][/\ \A cell \in TransformCells :
            pc = cell =>
                /\ ArgumentOf(cell)' = ArgumentOf(cell)
                /\ HasCol(ArgumentOf(cell)', "city_name")
                /\ Encoder' = Encoder /\ Scaler' = Scaler
                /\ LET again == transform_data(ArgumentOf(cell)', Encoder', Scaler')
                   IN  /\ again.err = error'
                       /\ again.err = "" =>
                            again.ret \in {X_train_transformed', X_test_transformed',
                                           batch_data_transformed',
                                           feature_vector_transformed',
                                           feature_vectors_transformed'}
       /\ pc = "to_df" => feature_vector' = feature_vector
       /\ pc = "to_dfs" => feature_vectors' = feature_vectors
      ]_vars

\* The training split, whose row labels are not 0..n-1, has been
\* transformed: it has kept its labels and its city_name column, and the
\* frame returned has the labels 0..n-1.
C20_Witness ==
    /\ pc = "transform_test"
    /\ X_train.index # RangeIndex(NRows(X_train))
    /\ HasCol(X_train, "city_name")
    /\ X_train_transformed.index = RangeIndex(NRows(X_train))
    /\ ~HasCol(X_train_transformed, "city_name")

====
